---- MODULE Spec2Model ----
(***************************************************************************)
(* A model of gfspy (src/gfspy/gfspy.py): the attribute catalog            *)
(* (get_attributes, with its config.json index and atts/<key>.json files)  *)
(* and the forecast query resolver (Forcast.get with hour_round and        *)
(* Forcast.value_to_index).                                                *)
(*                                                                         *)
(* Time is counted in whole seconds since an arbitrary midnight; the       *)
(* microsecond component of utcnow() is taken to be 0.  Python values      *)
(* that are written to or read from JSON carry their Python type as a tag  *)
(* (<<"str", s>>, <<"float", x>>, <<"bool", b>>); JSON text carries the    *)
(* JSON type (<<"string", s>>, <<"number", x>>, <<"true">>, <<"false">>).  *)
(***************************************************************************)
EXTENDS Integers, Sequences, FiniteSets, TLC

VARIABLES
    \* ---- the Catalog Store (files) ----
    saved_atts,     \* config.json: the list under "saved_atts"
    atts,           \* atts/<key>.json: the JSON text of each file, or NoFile
    \* ---- get_attributes, one activation per process ----
    cpc,            \* position of each process in get_attributes
    ckey,           \* "{res}{step}" of the call
    cconfig,        \* the local `config["saved_atts"]` read at line 260
    cparsed,        \* the locals time / coords / variables built while parsing
    cret,           \* what the last call returned or raised
    creqs,          \* number of requests.get calls the current/last call made
    \* ---- history of the catalog ----
    firstRet,       \* per key: the record returned by the first successful call
    hadFirst,       \* per process: firstRet[key] was set when the call began
    indexed,        \* keys some process has written to config.json
    ncalls,         \* calls of get_attributes begun so far
    \* ---- Forcast.get ----
    gpc,            \* position in Forcast.get
    cat,            \* self.times / self.coords / self.variables
    now,            \* datetime.utcnow()
    arg,            \* the arguments variables, date_time, lat, lon, alt
    loc,            \* the locals of Forcast.get
    gerr            \* the exception Forcast.get raised, or "none"

catVars == <<saved_atts, atts, cpc, ckey, cconfig, cparsed, cret, creqs,
             firstRet, hadFirst, indexed, ncalls>>
getVars == <<gpc, cat, now, arg, loc, gerr>>
vars == <<catVars, getVars>>

(***************************************************************************)
(* Bounds of the model.                                                    *)
(***************************************************************************)
NumProcs == 2
MaxCalls == 3
MaxGradsSize == 9
MaxVars == 2
MaxBackHalfHours == 14
MaxFwdHalfHours == 56

(***************************************************************************)
(* Part 1: the attribute catalog, get_attributes.                          *)
(***************************************************************************)
Procs == 1..NumProcs
SeqProcs == {1}

Resolutions == {"0p25", "Na"}
Timesteps == {"", "1hr"}

\* Forcast.__init__: a non-empty timestep gets a leading underscore.
Timestep(ts) == IF ts # "" THEN "_" \o ts ELSE ts

\* "{res}{step}".format(res=res, step=step)
Key(res, step) == res \o step

Keys == {Key(r, Timestep(t)) : r \in Resolutions, t \in Timesteps}

NoFile == [nofile |-> TRUE]
Unbound == [unbound |-> TRUE]
NoLocals == [time |-> Unbound, coords |-> Unbound, variables |-> Unbound]
NoRet == [status |-> "none"]

\* The module's import-time initialisation of config.json.
InitialSavedAtts == <<"Na">>

\* What the server may answer to the .das request, already cut into
\* entities: whether a `time` entity is present, its grads_size, and the
\* names of the entities that are not time/lat/lon/lev.
DasBodies ==
    { [hasTime |-> TRUE,  size |-> 4, names |-> {"tmp2m", "tmpprs"}],
      [hasTime |-> TRUE,  size |-> MaxGradsSize, names |-> {"tmp2m", "tmpprs"}],
      [hasTime |-> FALSE, size |-> 4, names |-> {"tmp2m"}] }

\* What the server may answer to the .dds request: for each declared
\* array, whether a `lev` dimension is among its dimensions.
DdsBodies ==
    { [tmp2m |-> FALSE, tmpprs |-> TRUE],
      [tmp2m |-> FALSE] }

HttpStatuses == {200, 404}
UtcHours == {3, 14}

\* Lines 277-307: the entities of the .das text sorted into time, coords
\* and variables.  `time` is only assigned when a time entity exists.
ParseDas(body) ==
    [time |-> IF body.hasTime
              THEN [grads_size |-> <<"float", body.size>>,
                    grads_step |-> <<"str", <<"3", "h", "r">> >>]
              ELSE Unbound,
     coords |-> [lat |-> [minimum |-> <<"float", -90>>,
                          resolution |-> <<"float", 1>>,
                          grads_size |-> <<"float", 181>>]],
     variables |-> [v \in body.names |-> [long_name |-> <<"str", v>>]]]

\* Lines 320-328: every declared array that is a known variable gets its
\* level_dependent flag; the other variables are left without the key.
MarkLevels(variables, dds) ==
    [v \in DOMAIN variables |->
        IF v \in DOMAIN dds
        THEN ("level_dependent" :> <<"bool", dds[v]>>) @@ variables[v]
        ELSE variables[v]]

\* json.dump / json.load of the saved dictionary.
DumpLeaf(x) ==
    CASE x[1] = "str"   -> <<"string", x[2]>>
      [] x[1] = "float" -> <<"number", x[2]>>
      [] x[1] = "bool"  -> IF x[2] THEN <<"true">> ELSE <<"false">>

LoadLeaf(j) ==
    CASE j[1] = "string" -> <<"str", j[2]>>
      [] j[1] = "number" -> <<"float", j[2]>>
      [] j[1] = "true"   -> <<"bool", TRUE>>
      [] j[1] = "false"  -> <<"bool", FALSE>>

DumpDict(d) == [k \in DOMAIN d |-> DumpLeaf(d[k])]
LoadDict(j) == [k \in DOMAIN j |-> LoadLeaf(j[k])]

JsonDump(save) ==
    [time |-> DumpDict(save.time),
     coords |-> [a \in DOMAIN save.coords |-> DumpDict(save.coords[a])],
     variables |-> [v \in DOMAIN save.variables |-> DumpDict(save.variables[v])]]

JsonLoad(text) ==
    [time |-> LoadDict(text.time),
     coords |-> [a \in DOMAIN text.coords |-> LoadDict(text.coords[a])],
     variables |-> [v \in DOMAIN text.variables |-> LoadDict(text.variables[v])]]

NeverSaved(key, config) == FALSE

\* `"{res}{step}" ... in config["saved_atts"]`
InSaved(key, config) == \E i \in DOMAIN config : config[i] = key

Ok(rec) == [status |-> "ok", time |-> rec.time, coords |-> rec.coords,
            variables |-> rec.variables]
Raised(exc) == [status |-> exc]

\* A call of get_attributes(res, step) begins.
CallGetAttributes(p) ==
    /\ cpc[p] = "idle"
    /\ ncalls < MaxCalls
    /\ ncalls' = ncalls + 1
    /\ \E r \in Resolutions, t \in Timesteps :
          ckey' = [ckey EXCEPT ![p] = Key(r, Timestep(t))]
    /\ cpc' = [cpc EXCEPT ![p] = "open"]
    /\ cret' = [cret EXCEPT ![p] = NoRet]
    /\ creqs' = [creqs EXCEPT ![p] = 0]
    /\ cparsed' = [cparsed EXCEPT ![p] = NoLocals]
    /\ cconfig' = [cconfig EXCEPT ![p] = <<>>]
    /\ hadFirst' = [hadFirst EXCEPT ![p] = firstRet[ckey'[p]] # Unbound]
    /\ UNCHANGED <<saved_atts, atts, firstRet, indexed>>
    /\ UNCHANGED getVars

\* Lines 259-261: config.json is read and the key looked up.
ReadConfig(p) ==
    /\ cpc[p] = "open"
    /\ cconfig' = [cconfig EXCEPT ![p] = saved_atts]
    /\ cpc' = [cpc EXCEPT ![p] =
                  IF InSaved(ckey[p], saved_atts) THEN "load" ELSE "das"]
    /\ UNCHANGED <<saved_atts, atts, ckey, cparsed, cret, creqs,
                   firstRet, hadFirst, indexed, ncalls>>
    /\ UNCHANGED <<getVars, ncalls>>

\* Lines 262-307: the reference date, the .das request and its parsing.
\* Before 06:00 UTC the date is computed with timedelta(day=1), which
\* raises TypeError before any request is made.
FetchDas(p) ==
    /\ cpc[p] = "das"
    /\ \E hour \in UtcHours, status \in HttpStatuses, body \in DasBodies :
          IF hour < 6
          THEN /\ cret' = [cret EXCEPT ![p] = Raised("TypeError")]
               /\ cpc' = [cpc EXCEPT ![p] = "idle"]
               /\ UNCHANGED <<creqs, cparsed>>
          ELSE /\ creqs' = [creqs EXCEPT ![p] = @ + 1]
               /\ IF status # 200
                  THEN /\ cret' = [cret EXCEPT ![p] = Raised("Exception")]
                       /\ cpc' = [cpc EXCEPT ![p] = "idle"]
                       /\ UNCHANGED cparsed
                  ELSE /\ cparsed' = [cparsed EXCEPT ![p] = ParseDas(body)]
                       /\ cpc' = [cpc EXCEPT ![p] = "dds"]
                       /\ UNCHANGED cret
    /\ UNCHANGED <<saved_atts, atts, ckey, cconfig, firstRet, hadFirst, indexed>>
    /\ UNCHANGED <<getVars, ncalls>>

\* Lines 309-330: the .dds request, the level_dependent flags and the
\* dictionary to save (which reads the local `time`).
FetchDds(p) ==
    /\ cpc[p] = "dds"
    /\ creqs' = [creqs EXCEPT ![p] = @ + 1]
    /\ \E status \in HttpStatuses, dds \in DdsBodies :
          IF status # 200
          THEN /\ cret' = [cret EXCEPT ![p] = Raised("RuntimeError")]
               /\ cpc' = [cpc EXCEPT ![p] = "idle"]
               /\ cparsed' = [cparsed EXCEPT ![p] = NoLocals]
          ELSE IF cparsed[p].time = Unbound
          THEN /\ cret' = [cret EXCEPT ![p] = Raised("UnboundLocalError")]
               /\ cpc' = [cpc EXCEPT ![p] = "idle"]
               /\ cparsed' = [cparsed EXCEPT ![p] = NoLocals]
          ELSE /\ cparsed' = [cparsed EXCEPT ![p].variables =
                                 MarkLevels(@, dds)]
               /\ cpc' = [cpc EXCEPT ![p] = "save"]
               /\ UNCHANGED cret
    /\ UNCHANGED <<saved_atts, atts, ckey, cconfig, firstRet, hadFirst, indexed>>
    /\ UNCHANGED <<getVars, ncalls>>

\* Lines 331-332: the record is written to atts/<key>.json.
WriteAtts(p) ==
    /\ cpc[p] = "save"
    /\ atts' = [atts EXCEPT ![ckey[p]] = JsonDump(cparsed[p])]
    /\ cpc' = [cpc EXCEPT ![p] = "index"]
    /\ UNCHANGED <<saved_atts, ckey, cconfig, cparsed, cret, creqs,
                   firstRet, hadFirst, indexed, ncalls>>
    /\ UNCHANGED <<getVars, ncalls>>

\* Lines 333-336: the key is appended to the list read at line 260, the
\* list is written back to config.json, and the parsed record returned.
WriteIndex(p) ==
    /\ cpc[p] = "index"
    /\ saved_atts' = Append(cconfig[p], ckey[p])
    /\ cconfig' = [cconfig EXCEPT ![p] = <<>>]
    /\ cparsed' = [cparsed EXCEPT ![p] = NoLocals]
    /\ cret' = [cret EXCEPT ![p] = Ok(cparsed[p])]
    /\ cpc' = [cpc EXCEPT ![p] = "idle"]
    /\ firstRet' = IF firstRet[ckey[p]] = Unbound
                   THEN [firstRet EXCEPT ![ckey[p]] = Ok(cparsed[p])]
                   ELSE firstRet
    /\ indexed' = indexed \cup {ckey[p]}
    /\ UNCHANGED <<atts, ckey, creqs, hadFirst>>
    /\ UNCHANGED <<getVars, ncalls>>

\* Lines 338-340: the cached record is read from atts/<key>.json.
LoadAtts(p) ==
    /\ cpc[p] = "load"
    /\ cret' = [cret EXCEPT ![p] =
                   IF atts[ckey[p]] = NoFile
                   THEN Raised("FileNotFoundError")
                   ELSE Ok(JsonLoad(atts[ckey[p]]))]
    /\ cpc' = [cpc EXCEPT ![p] = "idle"]
    /\ cconfig' = [cconfig EXCEPT ![p] = <<>>]
    /\ UNCHANGED <<saved_atts, atts, ckey, cparsed, creqs,
                   firstRet, hadFirst, indexed, ncalls>>
    /\ UNCHANGED <<getVars, ncalls>>

(***************************************************************************)
(* Part 2: Forcast.get.                                                    *)
(***************************************************************************)
Hour(t) == (t \div 3600) % 24
Minute(t) == (t \div 60) % 60
Second(t) == t % 60

\* hour_round(t): minutes and seconds zeroed, plus one hour when the
\* minute is 30 or more.
HourRound(t) == (t - (t % 3600)) + (Minute(t) \div 30) * 3600

\* int(c) of a digit character.
DigitValue(c) ==
    CASE c = "0" -> 0 [] c = "1" -> 1 [] c = "2" -> 2 [] c = "3" -> 3
      [] c = "4" -> 4 [] c = "5" -> 5 [] c = "6" -> 6 [] c = "7" -> 7
      [] c = "8" -> 8 [] c = "9" -> 9

\* int(self.times["grads_size"]) and int(self.times["grads_step"][0])
GradsSize(times) == times.grads_size[2]
GradsStep(times) == DigitValue(Head(times.grads_step[2]))

\* The hours a run extends forward: grads_size * grads_step.
Extent(times) == GradsSize(times) * GradsStep(times)

\* Line 68.
EarliestAvailable(t) == HourRound(t - 7 * 86400)

LatestAvailableKeepMinutes(t, times) ==
    HourRound(t - (Hour(t) - 6 * (Hour(t) \div 6) - Extent(times)) * 3600)

\* Lines 69-79.
LatestAvailable(t, times) ==
    HourRound(t - ( (Hour(t) - 6 * (Hour(t) \div 6) - Extent(times)) * 3600
                    + Minute(t) * 60 + Second(t) ))

\* Lines 81-83.
LatestForcast(t, times) == LatestAvailable(t, times) - Extent(times) * 3600

InWindowClosed(earliest, desired, latest) ==
    earliest <= desired /\ desired <= latest

\* Line 84.
InWindow(earliest, desired, latest) ==
    earliest < desired /\ desired < latest

StepBackOneHour(t) == t - 3600

\* Line 87.
StepBack(t) == t - 6 * 3600

\* Python's round() of the quotient n / d (n >= 0, d > 0): to the nearest
\* integer, a tie going to the even one.
PyRound(n, d) ==
    LET q == n \div d
        r == n % d
    IN  IF 2 * r < d THEN q
        ELSE IF 2 * r > d THEN q + 1
        ELSE IF q % 2 = 0 THEN q ELSE q + 1

\* timedelta.seconds of a non-negative duration: the part below one day.
TimedeltaSeconds(d) == d % 86400

\* Lines 93-96.
TimeIndex(desired, run, times) ==
    PyRound(TimedeltaSeconds(desired - run), GradsStep(times) * 60 * 60)

\* strftime("%H")
Strftime_H(t) ==
    IF Hour(t) < 10 THEN "0" \o ToString(Hour(t)) ELSE ToString(Hour(t))

\* strftime("%Y%m%d"), as the number of the day.
Strftime_Ymd(t) == ToString(t \div 86400)

\* Forcast.value_to_index: the position of the first lattice value equal
\* to `value`; list.index raises ValueError when there is none (-1 here).
ValueToIndex(axis, value) ==
    LET hits == {n \in 0..(axis.grads_size[2] - 1) :
                    axis.resolution[2] * n + axis.minimum[2] = value}
    IN  IF hits = {} THEN -1
        ELSE CHOOSE n \in hits : \A m \in hits : n <= m

Min2(a, b) == IF a <= b THEN a ELSE b
Max2(a, b) == IF a >= b THEN a ELSE b

\* Lines 108-129 (latitude) and 131-152 (longitude): the argument turned
\* into an index expression, or the exception raised on the way.
CoordExpr(axis, raw) ==
    CASE raw.type = "str" /\ raw.form = "empty" ->
            [err |-> "IndexError", val |-> raw]
      [] raw.type = "str" /\ raw.form = "range" ->
            \* float(re.findall(...)): float() of a list
            [err |-> "TypeError", val |-> raw]
      [] raw.type = "str" /\ raw.form = "digits" ->
            IF ValueToIndex(axis, raw.a) = -1
            THEN [err |-> "ValueError", val |-> raw]
            ELSE [err |-> "none",
                  val |-> [type |-> "str", form |-> "index",
                           text |-> "[" \o ToString(ValueToIndex(axis, raw.a)) \o "]"]]
      [] raw.type = "str" /\ raw.form = "text" ->
            [err |-> "ValueError", val |-> raw]
      [] raw.type = "float" ->
            [err |-> "none", val |-> raw]
      [] OTHER ->
            [err |-> "ValueError", val |-> raw]

\* Lines 158-161.
LevExpr(axis) ==
    "[0:" \o ToString((axis.minimum[2] - axis.maximum[2]) \div axis.resolution[2]) \o "]"

\* ---- the inputs the model draws a call's arguments from ----
NowHours == {0, 5, 13, 23}
NowMinutes == {0, 29, 30}
NowSeconds == {0, 59}
Nows == {8 * 86400 + h * 3600 + m * 60 + sec :
            h \in NowHours, m \in NowMinutes, sec \in NowSeconds}

StepTexts == {<<"1", "h", "r">>, <<"3", "h", "r">>, <<"6", "h", "r">>}
TimesChoices ==
    {[grads_size |-> <<"float", n>>, grads_step |-> <<"str", st>>] :
        n \in {4, MaxGradsSize}, st \in StepTexts}

Axis(min, max, res, size) ==
    [minimum |-> <<"float", min>>, maximum |-> <<"float", max>>,
     resolution |-> <<"float", res>>, grads_size |-> <<"float", size>>]

Coords == [lat |-> Axis(-2, 4, 2, 4), lon |-> Axis(0, 3, 1, 4),
           lev |-> Axis(1000, 100, 100, 10)]

\* tmp2m is declared without a lev dimension, tmpprs with one, and
\* "nolev" has no declaration in the .dds text (no level_dependent key).
CatVariables ==
    [tmp2m  |-> [long_name |-> <<"str", "tmp2m">>,
                 level_dependent |-> <<"bool", FALSE>>],
     tmpprs |-> [long_name |-> <<"str", "tmpprs">>,
                 level_dependent |-> <<"bool", TRUE>>],
     nolev  |-> [long_name |-> <<"str", "nolev">>]]

Catalog(times) == [times |-> times, coords |-> Coords, variables |-> CatVariables]

\* The requested datetimes: one second around each end of the window and
\* around the latest run, and every half hour around the latest run.
Requests(t, times) ==
    {b + d : b \in {EarliestAvailable(t), LatestForcast(t, times),
                    LatestAvailable(t, times)},
             d \in {-1, 0, 1}}
    \cup {LatestForcast(t, times) + 1800 * j :
             j \in (0 - MaxBackHalfHours)..MaxFwdHalfHours}

Str(form, a, b) == [type |-> "str", form |-> form, a |-> a, b |-> b]
Float(a) == [type |-> "float", form |-> "", a |-> a, b |-> 0]
NoneArg == [type |-> "none", form |-> "", a |-> 0, b |-> 0]

\* "[0:2]", "[2:0]", "[0:1]", "0", "2", "1", "-2", "", 2.0, None
CoordArgs ==
    {Str("range", 0, 2), Str("range", 2, 0), Str("range", 0, 1),
     Str("digits", 0, 0), Str("digits", 2, 0), Str("digits", 1, 0),
     Str("text", -2, 0), Str("empty", 0, 0), Float(2), NoneArg}

VarNames == {"tmp2m", "tmpprs", "nolev", "bogus"}
VarLists == UNION {[1..n -> VarNames] : n \in 0..MaxVars}

\* alt: the default [] or a caller's value.
AltArgs == {"[]", "all"}

Args(vs, dt, lat, lon, alt) ==
    [variables |-> vs, date_time |-> dt, lat |-> lat, lon |-> lon, alt |-> alt]

\* The call of the spec's example: runs every 6 hours, it is 13:00 and
\* 14:30 is requested.
ExampleTimes == [grads_size |-> <<"float", 4>>,
                 grads_step |-> <<"str", <<"6", "h", "r">> >>]
ExampleNow == 8 * 86400 + 13 * 3600
ExampleRequest == 8 * 86400 + 14 * 3600 + 1800

NoLoc ==
    [earliest_available |-> 0, latest_available |-> 0, latest_forcast |-> 0,
     query_forcast |-> 0, steps |-> 0, forcast_date |-> "", forcast_time |-> "",
     t_ind |-> 0, query_time |-> "", lat |-> NoneArg, lon |-> NoneArg,
     levBound |-> FALSE, lev |-> "", query |-> "", i |-> 1]

\* Lines 68-83: the window and the latest run, for the call's arguments.
StartGet(c, t, a) ==
    /\ cat' = c
    /\ now' = t
    /\ arg' = a
    /\ loc' = [NoLoc EXCEPT
                 !.earliest_available = EarliestAvailable(t),
                 !.latest_available = LatestAvailable(t, c.times),
                 !.latest_forcast = LatestForcast(t, c.times),
                 !.lat = a.lat,
                 !.lon = a.lon]
    /\ gpc' = "window"
    /\ gerr' = "none"
    /\ UNCHANGED catVars

\* A call of get: either the time arguments vary and the others are plain
\* ones, or the time arguments are the example's and the others vary.
GetCall ==
    /\ gpc = "idle"
    /\ \/ \E t \in Nows, tm \in TimesChoices :
             \E dt \in Requests(t, tm) :
                StartGet(Catalog(tm), t,
                         Args(<<"tmp2m">>, dt, Str("digits", 2, 0),
                              Str("digits", 1, 0), "[]"))
       \/ \E vs \in VarLists, lat \in CoordArgs, lon \in CoordArgs, alt \in AltArgs :
             StartGet(Catalog(ExampleTimes), ExampleNow,
                      Args(vs, ExampleRequest, lat, lon, alt))

\* Lines 84-85 and 99-106.
CheckWindow ==
    /\ gpc = "window"
    /\ IF InWindow(loc.earliest_available, arg.date_time, loc.latest_available)
       THEN /\ loc' = [loc EXCEPT !.query_forcast = loc.latest_forcast]
            /\ gpc' = "loop"
            /\ UNCHANGED gerr
       ELSE /\ gerr' = "ValueError: not available"
            /\ gpc' = "done"
            /\ UNCHANGED loc
    /\ UNCHANGED <<cat, now, arg, catVars>>

\* Lines 86-87: one turn of the while loop.
StepBackLoop ==
    /\ gpc = "loop"
    /\ arg.date_time < loc.query_forcast
    /\ loc' = [loc EXCEPT !.query_forcast = StepBack(@), !.steps = @ + 1]
    /\ UNCHANGED <<gpc, gerr, cat, now, arg, catVars>>

\* Lines 86 (the loop's exit) and 89-97.
SelectRun ==
    /\ gpc = "loop"
    /\ ~(arg.date_time < loc.query_forcast)
    /\ loc' = [loc EXCEPT
                 !.forcast_date = Strftime_Ymd(loc.query_forcast),
                 !.forcast_time = Strftime_H(loc.query_forcast),
                 !.t_ind = TimeIndex(arg.date_time, loc.query_forcast, cat.times),
                 !.query_time = "[" \o ToString(TimeIndex(arg.date_time,
                                   loc.query_forcast, cat.times)) \o "]"]
    /\ gpc' = "lat"
    /\ UNCHANGED <<gerr, cat, now, arg, catVars>>

\* Lines 108-129.
Latitude ==
    /\ gpc = "lat"
    /\ LET r == CoordExpr(cat.coords.lat, loc.lat)
       IN  IF r.err = "none"
           THEN /\ loc' = [loc EXCEPT !.lat = r.val]
                /\ gpc' = "lon"
                /\ UNCHANGED gerr
           ELSE /\ gerr' = r.err \o ": lat"
                /\ gpc' = "done"
                /\ UNCHANGED loc
    /\ UNCHANGED <<cat, now, arg, catVars>>

\* Lines 131-152.
Longitude ==
    /\ gpc = "lon"
    /\ LET r == CoordExpr(cat.coords.lon, loc.lon)
       IN  IF r.err = "none"
           THEN /\ loc' = [loc EXCEPT !.lon = r.val]
                /\ gpc' = "lev"
                /\ UNCHANGED gerr
           ELSE /\ gerr' = r.err \o ": lon"
                /\ gpc' = "done"
                /\ UNCHANGED loc
    /\ UNCHANGED <<cat, now, arg, catVars>>

\* Lines 154-169 with get_alt_press (lines 201-218).  With alt left at []
\* `lev` is never assigned.  Otherwise lev is assigned and get_alt_press
\* is called; it formats the url with hour=forcast_time, a string, for
\* the field "{hour:02d}", which raises ValueError before any request.
Level ==
    /\ gpc = "lev"
    /\ IF arg.alt = "[]"
       THEN /\ gpc' = "query"
            /\ UNCHANGED <<loc, gerr>>
       ELSE /\ loc' = [loc EXCEPT !.levBound = TRUE,
                                  !.lev = LevExpr(cat.coords.lev)]
            /\ gerr' = "ValueError: format code"
            /\ gpc' = "done"
    /\ UNCHANGED <<cat, now, arg, catVars>>

IsStr(x) == x.type = "str"

TokenNoComma(variable, l) ==
    IF cat.variables[variable].level_dependent[2]
    THEN variable \o l.query_time \o l.lev \o l.lat.text \o l.lon.text
    ELSE variable \o l.query_time \o l.lat.text \o l.lon.text

\* Lines 186-189: what one variable adds to the query.
Token(variable, l) ==
    IF cat.variables[variable].level_dependent[2]
    THEN "," \o variable \o l.query_time \o l.lev \o l.lat.text \o l.lon.text
    ELSE "," \o variable \o l.query_time \o l.lat.text \o l.lon.text

\* Lines 173-189: one turn of the loop over the requested variables; the
\* exception it raises, or "none".
QueryError(variable, l) ==
    IF variable \notin DOMAIN cat.variables
        THEN "ValueError: not a valid choice"
    ELSE IF "level_dependent" \notin DOMAIN cat.variables[variable]
        THEN "KeyError: level_dependent"
    ELSE IF cat.variables[variable].level_dependent[2] /\ ~l.levBound
        \* `lev == []` reads the unassigned local.  When lev is assigned
        \* it is a str, never equal to [], so the ValueError of lines
        \* 181-185 is raised in no case.
        THEN "UnboundLocalError: lev"
    ELSE IF ~IsStr(l.lat) \/ ~IsStr(l.lon)
        \* str + float
        THEN "TypeError: concatenate"
    ELSE "none"

QueryLoop ==
    /\ gpc = "query"
    /\ loc.i <= Len(arg.variables)
    /\ LET variable == arg.variables[loc.i]
       IN  IF QueryError(variable, loc) = "none"
           THEN /\ loc' = [loc EXCEPT !.query = @ \o Token(variable, loc),
                                      !.i = @ + 1]
                /\ UNCHANGED <<gpc, gerr>>
           ELSE /\ gerr' = QueryError(variable, loc)
                /\ gpc' = "done"
                /\ UNCHANGED loc
    /\ UNCHANGED <<cat, now, arg, catVars>>

\* The loop over the variables ends and get returns.
QueryDone ==
    /\ gpc = "query"
    /\ loc.i > Len(arg.variables)
    /\ gpc' = "done"
    /\ UNCHANGED <<loc, gerr, cat, now, arg, catVars>>

InitialCat == Catalog(ExampleTimes)
InitialArg == Args(<<>>, 8 * 86400, NoneArg, NoneArg, "[]")

\* get has returned or raised: its arguments and locals are gone.
GetReturn ==
    /\ gpc = "done"
    /\ gpc' = "idle"
    /\ cat' = InitialCat
    /\ now' = 8 * 86400
    /\ arg' = InitialArg
    /\ loc' = NoLoc
    /\ gerr' = "none"
    /\ UNCHANGED catVars

(***************************************************************************)
(* The specifications.                                                     *)
(***************************************************************************)
Init ==
    /\ saved_atts = InitialSavedAtts
    /\ atts = [k \in Keys |-> NoFile]
    /\ cpc = [p \in Procs |-> "idle"]
    /\ ckey = [p \in Procs |-> "Na"]
    /\ cconfig = [p \in Procs |-> <<>>]
    /\ cparsed = [p \in Procs |-> NoLocals]
    /\ cret = [p \in Procs |-> NoRet]
    /\ creqs = [p \in Procs |-> 0]
    /\ firstRet = [k \in Keys |-> Unbound]
    /\ hadFirst = [p \in Procs |-> FALSE]
    /\ indexed = {}
    /\ ncalls = 0
    /\ gpc = "idle"
    /\ cat = InitialCat
    /\ now = 8 * 86400
    /\ arg = InitialArg
    /\ loc = NoLoc
    /\ gerr = "none"

\* Forcast.get, called again and again.
Next ==
    \/ GetCall
    \/ CheckWindow
    \/ StepBackLoop
    \/ SelectRun
    \/ Latitude
    \/ Longitude
    \/ Level
    \/ QueryLoop
    \/ QueryDone
    \/ GetReturn
Spec == Init /\ [][Next]_vars

\* get_attributes called again and again by one process.
CatNext ==
    \E p \in SeqProcs :
        \/ CallGetAttributes(p)
        \/ ReadConfig(p)
        \/ FetchDas(p)
        \/ FetchDds(p)
        \/ WriteAtts(p)
        \/ WriteIndex(p)
        \/ LoadAtts(p)
CatSpec == Init /\ [][CatNext]_vars

\* get_attributes called by several processes that share the files.
RaceNext ==
    \E p \in Procs :
        \/ CallGetAttributes(p)
        \/ ReadConfig(p)
        \/ FetchDas(p)
        \/ FetchDds(p)
        \/ WriteAtts(p)
        \/ WriteIndex(p)
        \/ LoadAtts(p)
RaceSpec == Init /\ [][RaceNext]_vars

\* Forcast.get runs to its end: a started loop turn or exit is taken.
FairSpec == Spec /\ WF_vars(StepBackLoop) /\ WF_vars(SelectRun)

(***************************************************************************)
(* The claims.                                                             *)
(***************************************************************************)
Range(f) == {f[i] : i \in DOMAIN f}

\* C1: once a call of get_attributes for a key has succeeded, every later
\* call for that key (by the same single caller) makes no transport
\* request and returns a record equal to the one the first call returned.
C1_CacheIdempotence ==
    \A p \in SeqProcs :
        (cpc[p] = "idle" /\ cret[p] # NoRet /\ hadFirst[p])
            => (creqs[p] = 0 /\ cret[p] = firstRet[ckey[p]])

\* A later call for a key that was fetched before has returned.
C1_Witness ==
    \E p \in SeqProcs :
        /\ cpc[p] = "idle" /\ hadFirst[p]
        /\ cret[p].status = "ok" /\ creqs[p] = 0
        /\ ckey[p] = "0p25_1hr"

\* The window check of Forcast.get has been passed or failed.
PastWindow == gpc \notin {"idle", "window"}
Rejected == gerr = "ValueError: not available"

\* C2: the request is resolved exactly when it lies strictly between
\* earliest_available and latest_available; a request equal to either
\* bound is rejected with the availability error, and a request one second
\* inside either bound is accepted.
C2_StrictWindow ==
    PastWindow =>
        LET r == arg.date_time
            e == loc.earliest_available
            l == loc.latest_available
        IN  /\ Rejected <=> ~(e < r /\ r < l)
            /\ (r = e \/ r = l) => Rejected /\ gpc = "done"
            /\ (r = e + 1 \/ r = l - 1) => ~Rejected

\* A request one second before latest_available was accepted.
C2_Witness ==
    /\ gpc = "loop"
    /\ arg.date_time = loc.latest_available - 1

\* The while loop has ended and a run is selected.
RunSelected ==
    \/ gpc \in {"lat", "lon", "lev", "query"}
    \/ gpc = "done" /\ ~Rejected

C3_Selection ==
    LET r == arg.date_time
        lf == loc.latest_forcast
        sel == loc.query_forcast
        k == loc.steps
    IN  /\ gpc = "loop" =>
              /\ sel = lf - 6 * 3600 * k
              /\ k > 0 => r < sel + 6 * 3600
              /\ k <= (lf - loc.earliest_available) \div (6 * 3600) + 1
        /\ RunSelected =>
              /\ sel = lf - 6 * 3600 * k
              /\ sel <= r
              /\ k > 0 => lf - 6 * 3600 * (k - 1) > r
              /\ r >= lf => sel = lf
              /\ r < lf => r - sel < 6 * 3600
              /\ (now = ExampleNow /\ r = ExampleRequest)
                    => sel = 8 * 86400 + 12 * 3600

\* C3: the selected run is latest_forecast_run - 6h*k for the smallest
\* k >= 0 that makes it <= requested (so it is <= requested, it is the
\* latest run when requested is not before it, and otherwise less than 6
\* hours before requested), and the backward-stepping loop ends.
C3_RunSelection ==
    /\ []C3_Selection
    /\ (gpc = "loop") ~> (gpc = "lat")

\* A run was selected after stepping back, 2.5 hours before the request.
C3_Witness ==
    /\ gpc = "lat"
    /\ loc.steps >= 1
    /\ arg.date_time - loc.query_forcast = 9000

\* C4: the time index is round((requested - selected_run) /
\* run_step_hours) over the whole elapsed duration, days included.
C4_TimeIndex ==
    RunSelected =>
        loc.t_ind = PyRound(arg.date_time - loc.query_forcast,
                            GradsStep(cat.times) * 3600)

\* C5: when the query builder meets a requested variable that is
\* level-dependent in the catalog and alt was left at its default, the
\* call fails with the "requires the altitude/level to be defined"
\* ValueError and adds no token to the query.
C5_LevelEnforcement ==
    [][ ( /\ gpc = "query"
          /\ loc.i <= Len(arg.variables)
          /\ arg.alt = "[]"
          /\ arg.variables[loc.i] \in DOMAIN cat.variables
          /\ "level_dependent" \in DOMAIN cat.variables[arg.variables[loc.i]]
          /\ cat.variables[arg.variables[loc.i]].level_dependent[2] )
        => ( /\ gpc' = "done"
             /\ gerr' = "ValueError: requires the altitude/level"
             /\ loc'.query = loc.query ) ]_vars

RECURSIVE JoinTokens(_, _)
JoinTokens(vs, l) ==
    IF Len(vs) = 1 THEN TokenNoComma(vs[1], l)
    ELSE TokenNoComma(vs[1], l) \o "," \o JoinTokens(Tail(vs), l)

\* C6: for a non-empty list of catalog variables the query string is the
\* variables' tokens in request order, separated by single commas, with
\* no leading and no trailing comma.
C6_QueryFormat ==
    (gpc = "done" /\ gerr = "none" /\ Len(arg.variables) > 0)
        => loc.query = JoinTokens(arg.variables, loc)

OnLattice(axis, v) == ValueToIndex(axis, v) # -1

\* The latitude part of Forcast.get has run.
PastLatitude == RunSelected /\ gpc # "lat"

\* C7: a range "[a:b]" with both endpoints on the lattice becomes
\* "[i:j]" with i the index of min(a,b) and j that of max(a,b); a bare
\* numeric value on the lattice becomes "[i]"; a value off the lattice
\* fails with ValueError.
C7_CoordConversion ==
    PastLatitude =>
        LET axis == cat.coords.lat
            raw == arg.lat
        IN  /\ (raw.type = "str" /\ raw.form = "range"
                    /\ OnLattice(axis, raw.a) /\ OnLattice(axis, raw.b))
                => /\ gerr # "TypeError: lat"
                   /\ loc.lat.form = "index"
                   /\ loc.lat.text =
                        "[" \o ToString(ValueToIndex(axis, Min2(raw.a, raw.b)))
                        \o ":" \o ToString(ValueToIndex(axis, Max2(raw.a, raw.b)))
                        \o "]"
            /\ (raw.type = "str" /\ raw.form = "digits" /\ OnLattice(axis, raw.a))
                => /\ gerr # "ValueError: lat"
                   /\ loc.lat.form = "index"
                   /\ loc.lat.text = "[" \o ToString(ValueToIndex(axis, raw.a)) \o "]"
            /\ (raw.type = "str" /\ raw.form \in {"range", "digits"}
                    /\ (~OnLattice(axis, raw.a)
                          \/ (raw.form = "range" /\ ~OnLattice(axis, raw.b))))
                => gerr = "ValueError: lat"

\* C8 as stated: latest_available is hour-rounded now, minus (hour mod 6)
\* hours, minus run_count * run_step_hours hours.
C8_Original ==
    gpc # "idle" =>
        /\ loc.latest_available =
              HourRound(now) - (Hour(now) % 6) * 3600 - Extent(cat.times) * 3600
        /\ loc.latest_forcast = loc.latest_available - Extent(cat.times) * 3600

\* C8, amended: latest_available is now cut down to the whole hour (never
\* rounded up), minus (hour mod 6) hours, PLUS run_count * run_step_hours
\* hours; latest_forecast_run is latest_available minus that extent, the
\* most recent multiple of 6 hours not after now.
C8_LatestAvailable ==
    gpc # "idle" =>
        /\ loc.latest_available =
              (now - (now % 3600)) - (Hour(now) % 6) * 3600
              + Extent(cat.times) * 3600
        /\ loc.latest_forcast = loc.latest_available - Extent(cat.times) * 3600
        /\ loc.latest_forcast = now - (now % (6 * 3600))

\* The bounds were computed at 5:30:59 or a like time: past the half
\* hour and off the 6-hour grid.
C8_Witness ==
    /\ gpc = "window"
    /\ Minute(now) >= 30 /\ Second(now) > 0
    /\ Hour(now) % 6 # 0

\* A process is between reading config.json and writing it back.
InSection(p) == cpc[p] \in {"das", "dds", "save", "index"}

\* C9: read known keys, fetch, persist record, append key, persist index
\* run as one critical section per key: no two processes are inside it
\* for the same key, no key is twice in the index, and no key a process
\* wrote to the index is lost to another process's write.
C9_CriticalSection ==
    /\ \A p, q \in Procs :
          (p # q /\ InSection(p) /\ InSection(q)) => ckey[p] # ckey[q]
    /\ \A i, j \in DOMAIN saved_atts :
          saved_atts[i] = saved_atts[j] => i = j
    /\ indexed \subseteq Range(saved_atts)

\* The part of C9 about lost keys alone.
C9_NoLostKey == indexed \subseteq Range(saved_atts)

\* C10: a key is in the known-keys index only if a record for it has
\* been persisted.
C10_IndexedOnlyIfPersisted ==
    \A i \in DOMAIN saved_atts : atts[saved_atts[i]] # NoFile

\* The part of C10 about a failing call: it changes neither the index
\* nor any record.
C10_FailureLeavesStore ==
    [][ \A p \in Procs :
          (cret[p] = NoRet /\ cret'[p] # NoRet /\ cret'[p].status # "ok")
              => (saved_atts' = saved_atts /\ atts' = atts) ]_vars

\* The index never names a key without a record, the placeholder aside.
C10_ExceptPlaceholder ==
    \A i \in DOMAIN saved_atts :
        saved_atts[i] # "Na" => atts[saved_atts[i]] # NoFile

====
